---- MODULE Spec2Model ----
(***************************************************************************)
(* TRVAnalysis.py: for every parameter of a measurement table, a scatter   *)
(* view against the specification limits and a histogram binned by the     *)
(* tolerance, saved as one image per parameter.                            *)
(*                                                                         *)
(* The script computes in IEEE 754 binary64.  A finite float is modelled   *)
(* exactly, as a signed multiple of 2^-Scale whose magnitude is a natural  *)
(* number in little-endian limbs of LimbBits bits; every arithmetic        *)
(* operation rounds its exact result to Precision significant bits, ties   *)
(* to even, as the hardware does.                                          *)
(***************************************************************************)
EXTENDS Integers, Sequences, FiniteSets, TLC

\* ------------------------------------------------------------------------
\* Natural numbers of arbitrary size: sequences of limbs, least significant
\* first, without leading zero limbs (zero is the empty sequence).
\* ------------------------------------------------------------------------
LimbBits == 14
Base == 2^LimbBits
ScaleLimbs == 5
Scale == ScaleLimbs * LimbBits

Precision == 53

Hd(a) == IF a = <<>> THEN 0 ELSE Head(a)
Tl(a) == IF a = <<>> THEN <<>> ELSE Tail(a)

RECURSIVE Norm(_)
Norm(a) == IF a = <<>> THEN <<>>
           ELSE IF a[Len(a)] = 0 THEN Norm(SubSeq(a, 1, Len(a) - 1))
           ELSE a

RECURSIVE BAddC(_, _, _)
BAddC(a, b, c) ==
    IF a = <<>> /\ b = <<>> THEN (IF c = 0 THEN <<>> ELSE <<c>>)
    ELSE LET x == Hd(a) + Hd(b) + c
         IN  <<x % Base>> \o BAddC(Tl(a), Tl(b), x \div Base)

BAdd(a, b) == BAddC(a, b, 0)

\* a - b for a >= b
RECURSIVE BSubC(_, _, _)
BSubC(a, b, c) ==
    IF a = <<>> THEN <<>>
    ELSE LET x == Hd(a) - Hd(b) - c
         IN  IF x < 0 THEN <<x + Base>> \o BSubC(Tl(a), Tl(b), 1)
             ELSE <<x>> \o BSubC(Tl(a), Tl(b), 0)

BSub(a, b) == Norm(BSubC(a, b, 0))

\* -1, 0, 1 as a < b, a = b, a > b
RECURSIVE BCmpFrom(_, _, _)
BCmpFrom(a, b, i) ==
    IF i = 0 THEN 0
    ELSE IF a[i] < b[i] THEN -1
    ELSE IF a[i] > b[i] THEN 1
    ELSE BCmpFrom(a, b, i - 1)

BCmp(a, b) ==
    IF Len(a) < Len(b) THEN -1
    ELSE IF Len(a) > Len(b) THEN 1
    ELSE BCmpFrom(a, b, Len(a))

RECURSIVE BMulSmall(_, _, _)
BMulSmall(a, k, c) ==
    IF a = <<>> THEN (IF c = 0 THEN <<>> ELSE <<c>>)
    ELSE LET x == Head(a) * k + c
         IN  <<x % Base>> \o BMulSmall(Tail(a), k, x \div Base)

RECURSIVE BMul(_, _)
BMul(a, b) ==
    IF a = <<>> \/ b = <<>> THEN <<>>
    ELSE LET rest == BMul(a, Tail(b))
         IN  Norm(BAdd(BMulSmall(a, Head(b), 0),
                       IF rest = <<>> THEN <<>> ELSE <<0>> \o rest))

RECURSIVE SmallBits(_)
SmallBits(x) == IF x = 0 THEN 0 ELSE 1 + SmallBits(x \div 2)

BitLen(a) == IF a = <<>> THEN 0
             ELSE LimbBits * (Len(a) - 1) + SmallBits(a[Len(a)])

Limb(a, i) == IF i >= 1 /\ i <= Len(a) THEN a[i] ELSE 0

\* floor(a / 2^k)
Shr(a, k) ==
    LET q == k \div LimbBits
        r == k % LimbBits
        n == IF Len(a) > q THEN Len(a) - q ELSE 0
    IN  Norm([i \in 1..n |->
                (Limb(a, i + q) \div 2^r)
                + (Limb(a, i + q + 1) % 2^r) * 2^(LimbBits - r)])

\* a * 2^k
Shl(a, k) ==
    LET q == k \div LimbBits
        r == k % LimbBits
        n == IF a = <<>> THEN 0 ELSE Len(a) + q + 1
    IN  Norm([i \in 1..n |->
                (Limb(a, i - q) % 2^(LimbBits - r)) * 2^r
                + (Limb(a, i - q - 1) \div 2^(LimbBits - r))])

\* a mod 2^k
LowBits(a, k) ==
    LET q == k \div LimbBits
        r == k % LimbBits
        n == IF Len(a) > q THEN q + 1 ELSE Len(a)
    IN  Norm([i \in 1..n |-> IF i = q + 1 THEN a[i] % 2^r ELSE a[i]])

Bit(a, i) == (Limb(a, (i \div LimbBits) + 1) \div 2^(i % LimbBits)) % 2

\* The largest digit t < Base with t * b <= r, found bit by bit from the top
RECURSIVE QuoDigit(_, _, _, _)
QuoDigit(r, b, bit, acc) ==
    IF bit < 0 THEN acc
    ELSE IF BCmp(BMulSmall(b, acc + 2^bit, 0), r) <= 0
    THEN QuoDigit(r, b, bit - 1, acc + 2^bit)
    ELSE QuoDigit(r, b, bit - 1, acc)

\* <<floor(a / b), a mod b>> for b > 0, by long division from limb i down
RECURSIVE BDivFrom(_, _, _, _, _)
BDivFrom(a, b, i, quo, rem) ==
    IF i < 1 THEN <<Norm(quo), rem>>
    ELSE LET r2 == Norm(<<a[i]>> \o rem)
             d  == QuoDigit(r2, b, LimbBits - 1, 0)
         IN  IF d = 0 THEN BDivFrom(a, b, i - 1, <<0>> \o quo, r2)
             ELSE BDivFrom(a, b, i - 1, <<d>> \o quo, BSub(r2, BMulSmall(b, d, 0)))

BDivMod(a, b) == BDivFrom(a, b, Len(a), <<>>, <<>>)

\* Round to nearest, ties to even, at Precision significant bits; sticky says
\* that the exact value lies strictly above a.
RoundBits(a, sticky) ==
    LET k == BitLen(a) - Precision
    IN  IF k <= 0 THEN a
        ELSE LET q    == Shr(a, k)
                 low  == LowBits(a, k)
                 half == Shl(<<1>>, k - 1)
                 c    == BCmp(low, half)
                 up   == \/ c > 0
                         \/ c = 0 /\ sticky
                         \/ c = 0 /\ ~sticky /\ Bit(q, 0) = 1
             IN  Shl(IF up THEN BAddC(q, <<>>, 1) ELSE q, k)

\* ------------------------------------------------------------------------
\* binary64 values: finite (sign and magnitude in units of 2^-Scale), NaN,
\* or an infinity.  Zero is kept unsigned: no operation of the script tells
\* -0.0 from 0.0.
\* ------------------------------------------------------------------------
Fin(neg, mag) == [kind |-> "fin", neg |-> neg /\ mag # <<>>, mag |-> mag]
NaN == [kind |-> "nan", neg |-> FALSE, mag |-> <<>>]
Inf(neg) == [kind |-> "inf", neg |-> neg, mag |-> <<>>]
Zero == Fin(FALSE, <<>>)

RECURSIVE NatLimbs(_)
NatLimbs(n) == IF n = 0 THEN <<>> ELSE <<n % Base>> \o NatLimbs(n \div Base)

RECURSIVE LimbsNat(_)
LimbsNat(a) == IF a = <<>> THEN 0 ELSE Head(a) + Base * LimbsNat(Tail(a))

Abs(i) == IF i < 0 THEN -i ELSE i

\* An integer of the table as a float (exact for the integers used here):
\* Scale is a whole number of limbs
UnitShift == [k \in 1..ScaleLimbs |-> 0]
FromInt(i) == Fin(i < 0, IF i = 0 THEN <<>> ELSE UnitShift \o NatLimbs(Abs(i)))

IsFin(x) == x.kind = "fin"
IsNaN(x) == x.kind = "nan"

\* -1, 0, 1 for finite x, y
SCmp(x, y) ==
    IF x.neg /\ ~y.neg THEN -1
    ELSE IF ~x.neg /\ y.neg THEN 1
    ELSE IF x.neg THEN BCmp(y.mag, x.mag)
    ELSE BCmp(x.mag, y.mag)

\* Comparisons are false when either side is NaN
FLt(x, y) == IsFin(x) /\ IsFin(y) /\ SCmp(x, y) < 0
FLe(x, y) == IsFin(x) /\ IsFin(y) /\ SCmp(x, y) <= 0
FGt(x, y) == FLt(y, x)
FGe(x, y) == FLe(y, x)
FEq(x, y) == IsFin(x) /\ IsFin(y) /\ SCmp(x, y) = 0

FNeg(x) == IF IsFin(x) THEN Fin(~x.neg, x.mag) ELSE x

FAdd(x, y) ==
    IF ~IsFin(x) \/ ~IsFin(y) THEN NaN
    ELSE IF x.neg = y.neg THEN Fin(x.neg, RoundBits(BAdd(x.mag, y.mag), FALSE))
    ELSE IF BCmp(x.mag, y.mag) >= 0
         THEN Fin(x.neg, RoundBits(BSub(x.mag, y.mag), FALSE))
         ELSE Fin(y.neg, RoundBits(BSub(y.mag, x.mag), FALSE))

FSub(x, y) == FAdd(x, FNeg(y))

FMul(x, y) ==
    IF ~IsFin(x) \/ ~IsFin(y) THEN NaN
    ELSE Fin(x.neg # y.neg, Shr(RoundBits(BMul(x.mag, y.mag), FALSE), Scale))

\* 0/0 is NaN and x/0 an infinity (numpy warns and carries on)
FDiv(x, y) ==
    IF ~IsFin(x) \/ ~IsFin(y) THEN NaN
    ELSE IF y.mag = <<>> THEN (IF x.mag = <<>> THEN NaN ELSE Inf(x.neg # y.neg))
    ELSE LET qr == BDivMod(Shl(x.mag, Scale), y.mag)
         IN  Fin(x.neg # y.neg, RoundBits(qr[1], qr[2] # <<>>))

\* ceil of a finite float, as an integer
FCeil(x) ==
    LET whole == LimbsNat(Shr(x.mag, Scale))
        frac  == LowBits(x.mag, Scale) # <<>>
    IN  IF x.neg THEN -whole
        ELSE IF frac THEN whole + 1 ELSE whole

\* ------------------------------------------------------------------------
\* Text: a string is a sequence of one-character strings.
\* ------------------------------------------------------------------------
WordChars ==
    { "a", "b", "c", "d", "e", "f", "g", "h", "i", "j", "k", "l", "m",
      "n", "o", "p", "q", "r", "s", "t", "u", "v", "w", "x", "y", "z",
      "A", "B", "C", "D", "E", "F", "G", "H", "I", "J", "K", "L", "M",
      "N", "O", "P", "Q", "R", "S", "T", "U", "V", "W", "X", "Y", "Z",
      "0", "1", "2", "3", "4", "5", "6", "7", "8", "9", "_" }

\* re.sub(r'[^a-zA-Z0-9_]', '_', filename)
ReplaceNonWord(str) ==
    [i \in 1..Len(str) |-> IF str[i] \in WordChars THEN str[i] ELSE "_"]

\* re.sub(r'_+', '_', sanitized)
RECURSIVE CollapseUnderscores(_)
CollapseUnderscores(str) ==
    IF Len(str) < 2 THEN str
    ELSE IF str[1] = "_" /\ str[2] = "_" THEN CollapseUnderscores(Tail(str))
    ELSE <<str[1]>> \o CollapseUnderscores(Tail(str))

\* sanitized.strip('_')
RECURSIVE StripLeft(_)
StripLeft(str) ==
    IF str # <<>> /\ Head(str) = "_" THEN StripLeft(Tail(str)) ELSE str

RECURSIVE StripRight(_)
StripRight(str) ==
    IF str # <<>> /\ str[Len(str)] = "_"
    THEN StripRight(SubSeq(str, 1, Len(str) - 1))
    ELSE str

StripUnderscores(str) == StripRight(StripLeft(str))

sanitize_filename(filename) ==
    StripUnderscores(CollapseUnderscores(ReplaceNonWord(filename)))

\* f"{param}_{desc}.png"
PlotName(param, desc) == param \o <<"_">> \o desc \o <<".", "p", "n", "g">>

\* ------------------------------------------------------------------------
\* The table
\* ------------------------------------------------------------------------
column_mapping ==
    { <<"serial_num", "serial_name">>, <<"param_value_float", "value">> }

required_columns ==
    { "serial_name", "parameter_name", "description", "value",
      "lower_limit", "upper_limit" }

\* The column names a source file may carry
SourceColumns == required_columns \cup { m[1] : m \in column_mapping }

\* Lines 32-34: every old name that is present becomes the new name
RenameColumns(cols) ==
    { c \in cols : \A m \in column_mapping : m[1] # c }
      \cup { m[2] : m \in { n \in column_mapping : n[1] \in cols } }

\* Line 39 with the test inverted
PresentColumns(cols) == { c \in required_columns : c \in cols }

\* Line 39
MissingColumns(cols) == { c \in required_columns : c \notin cols }

\* Line 38
AllRequiredPresent(cols) == \A c \in required_columns : c \in cols

\* Bounds of the tables explored
MaxGroups == 2
MaxRows == 2

\* parameter_name values, in the order groupby yields them (sorted)
ParamNames == << <<"a">>, <<"a", " ", "b">>, <<"a", "_", "b">> >>
Descriptions == { <<"c">> }

\* serial_name values, in sorted order
SerialNames == << "s1", "s2" >>

\* Limits of a group's first row, and the cells of the value column: integers
\* or text that is no number
LimitValues == { -10, 0, 1 }
CellValues == { -12, -11, 12 }

\* A cell of the value column, and a row of a group
NumberCell(n) == [numeric |-> TRUE, number |-> n]
TextCell == [numeric |-> FALSE, number |-> 0]
Cells == { NumberCell(n) : n \in CellValues } \cup { TextCell }

Rows == [serial_name : { SerialNames[i] : i \in 1..Len(SerialNames) },
         value : Cells]

RowLists == UNION { [1..n -> Rows] : n \in 1..MaxRows }

\* ------------------------------------------------------------------------
\* Lines 56-66: the display window of a group
\* ------------------------------------------------------------------------
\* The literal 0.1 of lines 65 and 66
PadFraction == FDiv(FromInt(1), FromInt(10))

\* Line 61
Inverted(lower_limit, upper_limit) == lower_limit > upper_limit

\* Lines 61-63 without the swap of line 63
KeepLimits(lower_limit, upper_limit) == <<lower_limit, upper_limit>>

\* Lines 61-63: <<lower_limit, upper_limit>> after the check
CorrectLimits(lower_limit, upper_limit) ==
    IF Inverted(lower_limit, upper_limit)
    THEN <<upper_limit, lower_limit>>
    ELSE <<lower_limit, upper_limit>>

\* Line 65 with the padding added instead of subtracted
YMinPadAdded(lower_limit, upper_limit) ==
    FAdd(FromInt(lower_limit),
         FMul(FromInt(upper_limit - lower_limit), PadFraction))

\* Line 65
YMin(lower_limit, upper_limit) ==
    FSub(FromInt(lower_limit),
         FMul(FromInt(upper_limit - lower_limit), PadFraction))

\* Line 66
YMax(lower_limit, upper_limit) ==
    FAdd(FromInt(upper_limit),
         FMul(FromInt(upper_limit - lower_limit), PadFraction))

\* ------------------------------------------------------------------------
\* Lines 71-93: the scatter view
\* ------------------------------------------------------------------------
\* pd.to_numeric(..., errors='coerce')
ToNumeric(cell) == IF cell.numeric THEN FromInt(cell.number) ELSE NaN

\* Line 72: sorted(group['serial_name'].unique())
UniqueSerials(rows) ==
    LET Present(sn) == \E i \in 1..Len(rows) : rows[i].serial_name = sn
    IN  SelectSeq(SerialNames, Present)

\* Line 73: serial_to_x
SerialToX(unique_serials, sn) ==
    (CHOOSE i \in 1..Len(unique_serials) : unique_serials[i] = sn) - 1

\* Lines 75-76: the coerced values of one serial, in row order
SerialValues(rows, sn) ==
    LET Mine(r) == r.serial_name = sn
        mine == SelectSeq(rows, Mine)
    IN  [i \in 1..Len(mine) |-> ToNumeric(mine[i].value)]

\* Line 80 with the edges of the window left out
InBoundsExclusive(v, y_min, y_max) == FLt(v, y_max) /\ FGt(v, y_min)
\* Line 80
InBounds(v, y_min, y_max) == FLe(v, y_max) /\ FGe(v, y_min)
\* Line 87
OutOfBoundsTop(v, y_max) == FGt(v, y_max)
\* Line 88
OutOfBoundsBottom(v, y_min) == FLt(v, y_min)

\* Lines 91 and 93: where a marker is written
TopMarkerY(y_max) == FMul(y_max, FDiv(FromInt(98), FromInt(100)))
BottomMarkerY(y_min) == FMul(y_min, FDiv(FromInt(102), FromInt(100)))

\* Lines 75-93 for one serial: the points scattered and the markers written
\* (top_y and bottom_y are y_max * 0.98 and y_min * 1.02)
SerialSeries(rows, unique_serials, sn, y_min, y_max, top_y, bottom_y) ==
    LET values == SerialValues(rows, sn)
        x_pos  == SerialToX(unique_serials, sn)
        In(v)  == InBounds(v, y_min, y_max)
        Top(v) == OutOfBoundsTop(v, y_max)
        Bot(v) == OutOfBoundsBottom(v, y_min)
        in_bounds == SelectSeq(values, In)
        out_of_bounds_top == SelectSeq(values, Top)
        out_of_bounds_bottom == SelectSeq(values, Bot)
    IN  [serial_name |-> sn,
         x_pos |-> x_pos,
         in_bounds |-> in_bounds,
         markers |->
            [i \in 1..Len(out_of_bounds_top) |->
                [x |-> x_pos, y |-> top_y, glyph |-> "^"]]
            \o
            [i \in 1..Len(out_of_bounds_bottom) |->
                [x |-> x_pos, y |-> bottom_y, glyph |-> "v"]]]

\* ------------------------------------------------------------------------
\* Lines 116-152: the histogram
\* ------------------------------------------------------------------------
\* Line 11
BIN_SIZE_FRACTION == FDiv(FromInt(1), FromInt(20))

\* Lines 117-118: the group's values, coerced, without NaN
DropNa(rows) ==
    LET all == [i \in 1..Len(rows) |-> ToNumeric(rows[i].value)]
        Valid(v) == ~IsNaN(v)
    IN  SelectSeq(all, Valid)

\* Line 120 with >= for >
HasValuesOrNone(values) == Len(values) >= 0

\* Line 120
HasValues(values) == Len(values) > 0

\* Lines 122-123
BinSize(lower_limit, upper_limit) ==
    FMul(FromInt(upper_limit - lower_limit), BIN_SIZE_FRACTION)

\* Lines 127-128, before the conversion to int
BinRatio(y_min, y_max, bin_size) == FDiv(FSub(y_max, y_min), bin_size)

\* np.linspace(start, stop, num), num >= 2: the points i * step + start, the
\* last one set to stop
Linspace(start, stop, num) ==
    LET div   == num - 1
        delta == FSub(stop, start)
        step  == FDiv(delta, FromInt(div))
    IN  [i \in 1..num |->
            IF i = num THEN stop
            ELSE IF step.mag = <<>>
            THEN FAdd(FMul(FDiv(FromInt(i - 1), FromInt(div)), delta), start)
            ELSE FAdd(FMul(FromInt(i - 1), step), start)]

\* Lines 122-131: the bins.  int() of a NaN or of an infinity raises, and
\* nothing around line 128 catches it.
Bins(lower_limit, upper_limit, y_min, y_max) ==
    LET bin_size == BinSize(lower_limit, upper_limit)
        ratio    == BinRatio(y_min, y_max, bin_size)
        num_bins == FCeil(ratio)
    IN  IF ~IsFin(ratio)
        THEN [kind |-> "raised", bin_size |-> bin_size, num_bins |-> 0,
              bins |-> <<>>]
        ELSE [kind |-> "bins", bin_size |-> bin_size, num_bins |-> num_bins,
              bins |-> Linspace(y_min, y_max, num_bins + 1)]

\* Everything lines 65-66, 91, 93 and 122-131 derive from a pair of limits
Geometry(lower_limit, upper_limit) ==
    LET y_min == YMin(lower_limit, upper_limit)
        y_max == YMax(lower_limit, upper_limit)
    IN  [lower_limit |-> lower_limit, upper_limit |-> upper_limit,
         y_min |-> y_min, y_max |-> y_max,
         top_y |-> TopMarkerY(y_max), bottom_y |-> BottomMarkerY(y_min),
         bins |-> Bins(lower_limit, upper_limit, y_min, y_max)]

\* The same, computed once for every pair of limits a group can have
GeometryTable == { Geometry(lu[1], lu[2]) : lu \in LimitValues \X LimitValues }

GeometryOf(lower_limit, upper_limit) ==
    CHOOSE g \in GeometryTable :
        g.lower_limit = lower_limit /\ g.upper_limit = upper_limit

\* Lines 116-152: what the histogram branch leaves behind
Histogram(rows, bins) ==
    IF HasValues(DropNa(rows))
    THEN bins
    ELSE [kind |-> "no data", bin_size |-> Zero, num_bins |-> 0, bins |-> <<>>]

\* ------------------------------------------------------------------------
\* The run
\* ------------------------------------------------------------------------
VARIABLES
    pc,         \* where the script is
    columns,    \* df.columns
    missing,    \* the columns the ValueError of line 40 names
    folder,     \* whether scatter_plots exists
    ngroups,    \* the number of groups of the table
    processed,  \* the iterations of the loop of line 50 that have ended
    last,       \* the index in ParamNames of the latest group
    cur,        \* the group in progress and what was derived from it
    files,      \* the files of scatter_plots: name and the group drawn in it
    saved,      \* the groups whose savefig returned
    out         \* the lines printed

vars == <<pc, columns, missing, folder, ngroups, processed, last, cur, files,
          saved, out>>

NoHistogram == [kind |-> "none", bin_size |-> Zero, num_bins |-> 0, bins |-> <<>>]

NoGroup ==
    [param |-> <<>>, desc |-> <<>>, rows |-> <<>>,
     first_lower |-> 0, first_upper |-> 0,
     lower_limit |-> 0, upper_limit |-> 0, y_min |-> Zero, y_max |-> Zero,
     unique_serials |-> <<>>, series |-> <<>>, hist |-> NoHistogram,
     filename |-> <<>>]

\* Line 23: the table has been read
Init ==
    /\ pc = "rename"
    /\ columns \in SUBSET SourceColumns
    /\ missing = {}
    /\ folder = FALSE
    /\ ngroups = 0
    /\ processed = 0
    /\ last = 0
    /\ cur = NoGroup
    /\ files = {}
    /\ saved = <<>>
    /\ out = <<>>

\* Lines 32-34
Rename ==
    /\ pc = "rename"
    /\ columns' = RenameColumns(columns)
    /\ pc' = "check"
    /\ UNCHANGED <<missing, folder, ngroups, processed, last, cur, files,
                   saved, out>>

\* Lines 38-40: the ValueError ends the run
CheckColumns ==
    /\ pc = "check"
    /\ \/ /\ ~AllRequiredPresent(columns)
          /\ missing' = MissingColumns(columns)
          /\ pc' = "value error"
       \/ /\ AllRequiredPresent(columns)
          /\ missing' = missing
          /\ pc' = "group by"
    /\ UNCHANGED <<columns, folder, ngroups, processed, last, cur, files,
                   saved, out>>

\* Lines 43-48: the groups of the table (as many as it has parameter names)
\* and the output folder
GroupBy ==
    /\ pc = "group by"
    /\ \E n \in 0..MaxGroups :
          /\ n <= Len(ParamNames)
          /\ ngroups' = n
    /\ folder' = TRUE
    /\ pc' = "for"
    /\ UNCHANGED <<columns, missing, processed, last, cur, files, saved, out>>

\* Lines 50-66: the next group in key order, its first description, the
\* limits of its first row, the warning and the window
Window ==
    /\ pc = "for"
    /\ processed < ngroups
    /\ \E p \in (last + 1)..(Len(ParamNames) - (ngroups - processed - 1)),
          desc \in Descriptions,
          lower \in LimitValues, upper \in LimitValues,
          rows \in RowLists :
          LET limits == CorrectLimits(lower, upper)
              g == GeometryOf(limits[1], limits[2])
          IN  /\ last' = p
              /\ out' = IF Inverted(lower, upper)
                        THEN Append(out, [kind |-> "warning",
                                          param |-> ParamNames[p],
                                          desc |-> <<>>])
                        ELSE out
              /\ cur' = [NoGroup EXCEPT
                           !.param = ParamNames[p],
                           !.desc = desc,
                           !.rows = rows,
                           !.first_lower = lower,
                           !.first_upper = upper,
                           !.lower_limit = limits[1],
                           !.upper_limit = limits[2],
                           !.y_min = g.y_min,
                           !.y_max = g.y_max]
    /\ pc' = "scatter"
    /\ UNCHANGED <<columns, missing, folder, ngroups, processed, files, saved>>

\* Lines 68-111
Scatter ==
    /\ pc = "scatter"
    /\ LET unique_serials == UniqueSerials(cur.rows)
           g == GeometryOf(cur.lower_limit, cur.upper_limit)
       IN  cur' = [cur EXCEPT
                     !.unique_serials = unique_serials,
                     !.series =
                        [i \in 1..Len(unique_serials) |->
                            SerialSeries(cur.rows, unique_serials,
                                         unique_serials[i],
                                         cur.y_min, cur.y_max,
                                         g.top_y, g.bottom_y)]]
    /\ pc' = "histogram"
    /\ UNCHANGED <<columns, missing, folder, ngroups, processed, last, files,
                   saved, out>>

\* Lines 113-152: an exception of line 128 is caught nowhere and ends the run
Hist ==
    /\ pc = "histogram"
    /\ LET hist == Histogram(cur.rows,
                             GeometryOf(cur.lower_limit, cur.upper_limit).bins)
       IN  /\ cur' = [cur EXCEPT !.hist = hist]
           /\ pc' = IF hist.kind = "raised" THEN "uncaught" ELSE "save"
    /\ UNCHANGED <<columns, missing, folder, ngroups, processed, last, files,
                   saved, out>>

\* Lines 154-162: savefig writes the file, replacing one of the same name, or
\* raises, and the exception is printed; the figure of the group is done with
Save ==
    /\ pc = "save"
    /\ LET filename == sanitize_filename(PlotName(cur.param, cur.desc))
       IN  /\ cur' = [NoGroup EXCEPT !.param = cur.param, !.desc = cur.desc,
                                      !.filename = filename]
           /\ \/ /\ files' = { f \in files : f.name # filename }
                               \cup { [name |-> filename, plot |-> cur.param] }
                 /\ saved' = Append(saved, cur.param)
                 /\ out' = out
              \/ /\ out' = Append(out, [kind |-> "error", param |-> cur.param,
                                        desc |-> cur.desc])
                 /\ UNCHANGED <<files, saved>>
    /\ processed' = processed + 1
    /\ pc' = "for"
    /\ UNCHANGED <<columns, missing, folder, ngroups, last>>

\* Line 164
Summary ==
    /\ pc = "for"
    /\ processed = ngroups
    /\ out' = Append(out, [kind |-> "summary", param |-> <<>>, desc |-> <<>>])
    /\ pc' = "done"
    /\ UNCHANGED <<columns, missing, folder, ngroups, processed, last, cur,
                   files, saved>>

Next ==
    \/ Rename
    \/ CheckColumns
    \/ GroupBy
    \/ Window
    \/ Scatter
    \/ Hist
    \/ Save
    \/ Summary

Spec == Init /\ [][Next]_vars

\* ------------------------------------------------------------------------
\* Properties
\* ------------------------------------------------------------------------
\* The window of the group in progress has been derived
WindowDone == pc \in {"scatter", "histogram", "save", "uncaught"}
\* ... and its scatter view drawn
ScatterDone == pc \in {"histogram", "save", "uncaught"}
\* ... and its histogram branch taken
HistDone == pc \in {"save", "uncaught"}

\* The rows of the group in progress that belong to a serial
RowsOf(sn) == { i \in 1..Len(cur.rows) : cur.rows[i].serial_name = sn }
NumericRowsOf(sn) == { i \in RowsOf(sn) : cur.rows[i].value.numeric }
NumericRows == { i \in 1..Len(cur.rows) : cur.rows[i].value.numeric }
CellFloat(i) == FromInt(cur.rows[i].value.number)

Glyphs(s, glyph) == { k \in 1..Len(s.markers) : s.markers[k].glyph = glyph }

WarningsFor(param) ==
    Cardinality({ k \in 1..Len(out) :
                    out[k].kind = "warning" /\ out[k].param = param })

\* C1: in every serial of a group, the in-bounds points, the '^' markers and
\* the 'v' markers are exactly the numeric values inside the window
\* (inclusive), above y_max and below y_min, so the three counts add up to the
\* number of numeric values and a non-numeric value is in none of them.
C1_BoundsPartition ==
    ScatterDone =>
        \A i \in 1..Len(cur.series) :
            LET s == cur.series[i]
                numeric == NumericRowsOf(s.serial_name)
                inside == { r \in numeric :
                              FLe(cur.y_min, CellFloat(r))
                              /\ FLe(CellFloat(r), cur.y_max) }
                above == { r \in numeric : FLt(cur.y_max, CellFloat(r)) }
                below == { r \in numeric : FLt(CellFloat(r), cur.y_min) }
            IN  /\ Len(s.in_bounds) = Cardinality(inside)
                /\ Cardinality(Glyphs(s, "^")) = Cardinality(above)
                /\ Cardinality(Glyphs(s, "v")) = Cardinality(below)
                /\ Len(s.in_bounds) + Len(s.markers) = Cardinality(numeric)
                /\ \A k \in 1..Len(s.in_bounds) : IsFin(s.in_bounds[k])

\* A serial with one value on the lower edge of the window and one outside it
C1_Witness ==
    /\ pc = "histogram"
    /\ \E i \in 1..Len(cur.series) :
          /\ Len(cur.series[i].in_bounds) = 1
          /\ FEq(cur.series[i].in_bounds[1], cur.y_min)
          /\ Len(cur.series[i].markers) = 1

\* C2: with lower_limit <= upper_limit in the first row, the window contains
\* the limits, strictly at both ends when upper_limit > lower_limit, and is
\* the single point of the limit when they are equal.
C2_WindowContainsLimits ==
    (WindowDone /\ cur.first_lower <= cur.first_upper) =>
        /\ FLe(cur.y_min, FromInt(cur.first_lower))
        /\ FLe(FromInt(cur.first_upper), cur.y_max)
        /\ cur.first_lower < cur.first_upper =>
              /\ FLt(cur.y_min, FromInt(cur.first_lower))
              /\ FLt(FromInt(cur.first_upper), cur.y_max)
        /\ cur.first_lower = cur.first_upper =>
              /\ cur.y_min = FromInt(cur.first_lower)
              /\ cur.y_max = FromInt(cur.first_lower)

C2_Witness ==
    /\ pc = "scatter"
    /\ cur.first_lower < cur.first_upper
    /\ FLt(cur.y_min, FromInt(cur.first_lower))

\* C3: inverted limits are swapped before the window is derived, with exactly
\* one warning for the group, the window is that of the swapped pair and the
\* group goes on (no exception); limits in order bring no warning.
C3_InvertedLimitsSwapped ==
    WindowDone =>
        /\ cur.first_lower > cur.first_upper =>
              /\ cur.lower_limit = cur.first_upper
              /\ cur.upper_limit = cur.first_lower
              /\ cur.lower_limit <= cur.upper_limit
              /\ cur.y_min = GeometryOf(cur.first_upper, cur.first_lower).y_min
              /\ cur.y_max = GeometryOf(cur.first_upper, cur.first_lower).y_max
              /\ WarningsFor(cur.param) = 1
              /\ pc # "uncaught"
        /\ cur.first_lower <= cur.first_upper =>
              /\ cur.lower_limit = cur.first_lower
              /\ cur.upper_limit = cur.first_upper
              /\ WarningsFor(cur.param) = 0

C3_Witness ==
    /\ pc = "save"
    /\ cur.first_lower > cur.first_upper
    /\ WarningsFor(cur.param) = 1

\* C4: a degenerate window (lower_limit = upper_limit) with at least one
\* numeric value yields no bins and the histogram is skipped: nothing raises.
C4_DegenerateWindowYieldsNoBins ==
    (HistDone /\ cur.lower_limit = cur.upper_limit /\ NumericRows # {}) =>
        /\ cur.hist.kind # "raised"
        /\ cur.hist.bins = <<>>
        /\ pc # "uncaught"

ErrorsPrinted == { k \in 1..Len(out) : out[k].kind = "error" }

\* C5: no group ends the run: a failure in one group is caught and printed
\* with the group's parameter and description, every iteration that ended
\* either saved or printed its error, and a run that got past the column
\* check ends with the summary line after all groups.
C5_NoGroupAbortsTheBatch ==
    /\ pc # "uncaught"
    /\ processed = Len(saved) + Cardinality(ErrorsPrinted)
    /\ (pc = "for" /\ processed > 0) =>
          \/ saved # <<>> /\ saved[Len(saved)] = cur.param
          \/ /\ out # <<>>
             /\ out[Len(out)] = [kind |-> "error", param |-> cur.param,
                                 desc |-> cur.desc]
    /\ pc = "done" =>
          /\ processed = ngroups
          /\ out[Len(out)].kind = "summary"

\* C6: a required column absent after the renaming ends the run at once with
\* an error naming exactly the absent columns, before the folder exists and
\* before any group is touched; with all of them present no error is raised.
C6_MissingColumnsAreFatal ==
    /\ pc = "value error" =>
          /\ missing = required_columns \ columns
          /\ missing # {}
          /\ ~folder
          /\ processed = 0 /\ cur = NoGroup
          /\ files = {} /\ saved = <<>> /\ out = <<>>
    /\ pc \notin {"rename", "check", "value error"} =>
          required_columns \subseteq columns
    /\ (pc # "rename" /\ required_columns \subseteq columns) =>
          (pc # "value error" /\ missing = {})

\* The table had serial_num but neither value column nor a description
C6_Witness ==
    /\ pc = "value error"
    /\ missing = {"value", "description"}
    /\ "serial_name" \in columns

StrictlyIncreasing(seq) ==
    \A k \in 1..(Len(seq) - 1) : FLt(seq[k], seq[k + 1])

\* C7: with lower_limit < upper_limit and a numeric value, the bins are 24:
\* 25 strictly increasing edges from exactly y_min to exactly y_max.
C7_TwentyFourBins ==
    (pc = "save" /\ cur.lower_limit < cur.upper_limit /\ NumericRows # {}) =>
        /\ cur.hist.kind = "bins"
        /\ cur.hist.num_bins = 24
        /\ Len(cur.hist.bins) = 25
        /\ StrictlyIncreasing(cur.hist.bins)
        /\ cur.hist.bins[1] = cur.y_min
        /\ cur.hist.bins[Len(cur.hist.bins)] = cur.y_max

\* The rank of a serial among the sorted serials of the group in progress
RankOf(sn) ==
    LET me == CHOOSE j \in 1..Len(SerialNames) : SerialNames[j] = sn
    IN  Cardinality({ j \in 1..(me - 1) : RowsOf(SerialNames[j]) # {} })

\* C8: every out-of-bounds value has one marker at its serial's rank, and
\* the marker lies inside the window.
C8_MarkersInsideTheWindow ==
    ScatterDone =>
        \A i \in 1..Len(cur.series) :
            LET s == cur.series[i]
                out_of_bounds ==
                    { r \in NumericRowsOf(s.serial_name) :
                        \/ FLt(cur.y_max, CellFloat(r))
                        \/ FLt(CellFloat(r), cur.y_min) }
            IN  /\ Len(s.markers) = Cardinality(out_of_bounds)
                /\ \A k \in 1..Len(s.markers) :
                      /\ s.markers[k].x = RankOf(s.serial_name)
                      /\ FLe(cur.y_min, s.markers[k].y)
                      /\ FLe(s.markers[k].y, cur.y_max)

\* C9: a group without a numeric value gets the "no data" placeholder, with
\* no bins derived whatever its limits, and a scatter view without points or
\* markers; bins are derived exactly when a numeric value remains.
C9_NoDataWithoutNumericValues ==
    HistDone =>
        /\ NumericRows = {} =>
              /\ cur.hist.kind = "no data"
              /\ cur.hist.bins = <<>>
              /\ pc # "uncaught"
              /\ \A i \in 1..Len(cur.series) :
                    /\ cur.series[i].in_bounds = <<>>
                    /\ cur.series[i].markers = <<>>
        /\ NumericRows # {} => cur.hist.kind \in {"bins", "raised"}

\* A group of text cells whose limits are equal
C9_Witness ==
    /\ pc = "save"
    /\ NumericRows = {}
    /\ Len(cur.rows) = MaxRows
    /\ cur.lower_limit = cur.upper_limit
    /\ cur.hist.kind = "no data"

\* C10: the groups saved without error have distinct file names: the folder
\* holds as many files as groups were saved, each with its own group's plot.
C10_FilenamesCollisionFree ==
    /\ Cardinality(files) = Len(saved)
    /\ \A k \in 1..Len(saved) : \E f \in files : f.plot = saved[k]

====
